---- MODULE Spec2Model ----
(***************************************************************************)
(* Model of the auto-betting session loop of manifold-llm-betting.         *)
(* Three scripts run the same loop with small differences:                 *)
(*   "unified"  unified_manifold_api.py     (main_gemini_autobet)          *)
(*   "gemini"   manifold_gemini_autobet.py  (main_gemini_autobet, helpers  *)
(*              and the exit flag imported from common.py)                 *)
(*   "modular"  modular_manifold_bettor.py  (main_modular_autobet)         *)
(* Python floats are modelled as exact rationals <<num, den>>, den > 0,    *)
(* in lowest terms; the value None is the pair <<0, 0>>.                   *)
(***************************************************************************)
EXTENDS Integers, Sequences, FiniteSets, TLC

(***************************************************************************)
(* Bounds of the model.                                                    *)
(***************************************************************************)
\* the longest list recent_open_markets a session iterates over
MaxMarkets == 2
\* the most text chunks one streamed analysis delivers
MaxChunks == 1

(***************************************************************************)
(* Exact rational arithmetic.                                              *)
(***************************************************************************)
RECURSIVE GCD(_, _)
GCD(a, b) == IF b = 0 THEN a ELSE GCD(b, a % b)

Abs(n) == IF n < 0 THEN -n ELSE n

Norm(n, d) ==
    LET g == GCD(Abs(n), Abs(d))
        s == IF d < 0 THEN -1 ELSE 1
    IN  <<(s * n) \div g, (s * d) \div g>>

Rat(n, d) == Norm(n, d)
RInt(n) == <<n, 1>>

RAdd(x, y) ==
    LET g == GCD(x[2], y[2])
    IN  Norm(x[1] * (y[2] \div g) + y[1] * (x[2] \div g), x[2] * (y[2] \div g))
RNeg(x) == <<-x[1], x[2]>>
RSub(x, y) == RAdd(x, RNeg(y))
RMul(x, y) ==
    LET a == Norm(x[1], y[2])
        b == Norm(y[1], x[2])
    IN  Norm(a[1] * b[1], a[2] * b[2])
\* x / y for y # 0
RDiv(x, y) == RMul(x, Norm(y[2], y[1]))
RLt(x, y) ==
    LET g == GCD(x[2], y[2])
    IN  x[1] * (y[2] \div g) < y[1] * (x[2] \div g)
RLe(x, y) == ~RLt(y, x)
RAbs(x) == <<Abs(x[1]), x[2]>>
Zero == RInt(0)
One == RInt(1)

\* floor of a rational (\div rounds towards minus infinity)
Floor(x) == x[1] \div x[2]

\* Python's round(): to the nearest integer, a tie to the even one
round(x) ==
    LET f == Floor(x)
        frac == RSub(x, RInt(f))
    IN  IF RLt(frac, Rat(1, 2)) THEN f
        ELSE IF RLt(Rat(1, 2), frac) THEN f + 1
        ELSE IF f % 2 = 0 THEN f ELSE f + 1

\* the value None of a float-valued name
None == <<0, 0>>

(***************************************************************************)
(* Inputs of a session.                                                    *)
(***************************************************************************)
Variants == {"unified", "gemini", "modular"}
Labels == {"Low", "Medium", "High"}
\* full_market['id']
MarketIds == 1..MaxMarkets
\* --resolution-months-limit
MonthsLimits == {0, 1, 2}
\* datetime.now(), in days since the epoch
Nows == {RInt(100), RInt(101)}
\* m['closeTime']: a number (in thousandths of the unit of now), a missing
\* key, a string, or a number datetime.fromtimestamp rejects
CloseTimes ==
    {[kind |-> "number", ms |-> t] :
        t \in {0, 99000, 100000, 115000, 130000, 145000}}
    \cup {[kind |-> k, ms |-> 0] : k \in {"missing", "text", "huge"}}
\* the summaries search_markets can return at position i of its result
Summaries(i) ==
    {[id |-> i, isResolved |-> r, closeTime |-> c] :
        r \in BOOLEAN, c \in CloseTimes}
\* user_details['balance']
InitialBalances == {RInt(0), RInt(6), RInt(1000)}
\* the probability of the trailing JSON object of the model output
EstimateProbs == {Zero, Rat(3, 10), Rat(1, 2), Rat(18, 25), One}
\* full_market['probability'] (a missing key reads as 0)
MarketProbs == {Zero, Rat(1, 2), Rat(3, 4), One}
\* --kelly-fraction values tried
KellyFractions == {Rat(1, 4), One, RInt(2)}

VARIABLES
    variant,          \* which script runs the session
    args,             \* parse_args(): kelly_fraction, min_confidence, dry_run
    exit_flag,        \* the global the listener thread sets and place_bet reads
    imported_flag,    \* "gemini": the name bound by `from common import exit_flag`
    pc,               \* position of the main thread
    num_markets,      \* len(recent_open_markets)
    idx,              \* markets of the list already consumed by the for loop
    initial_balance,  \* balance read from user_details
    balance,          \* the running balance
    market_prob,      \* full_market.get('probability', 0) of the current market
    chunks,           \* chunks appended to full_response_text, a local of the
                      \* analysis function: 0 outside it
    model_prob,       \* estimate returned by the analysis (None when absent)
    model_confidence, \* its confidence label ("None" when absent)
    decision,         \* outcome, odds, p_win, kelly_percentage, bet_amount
    payload_amount,   \* payload["amount"] of the request sent to /v0/bet
    bet_placed,       \* first value returned by place_bet
    amount_bet,       \* second value returned by place_bet
    flag_at_top,      \* history: the listener's flag when this iteration began
    cancel_mid,       \* history: the flag was set while the analysis ran
    divided,          \* history: an odds division was evaluated this iteration
    called,           \* history: place_bet was called this iteration
    market_ids,       \* full_market['id'] of each entry of the list, in order
    bet_log,          \* the rows of bet_log.csv, oldest first
    attempted,        \* history: market ids place_bet was called with, in order
    markets,          \* search_markets(): the summaries the filter reads
    scanned,          \* entries of markets the filter loop has consumed
    recent_open_markets,  \* the list the filter builds
    now               \* datetime.now() taken once before the filter

vars == <<variant, args, exit_flag, imported_flag, pc, num_markets, idx,
          initial_balance, balance, market_prob, chunks, model_prob,
          model_confidence, decision, payload_amount, bet_placed, amount_bet,
          flag_at_top, cancel_mid, divided, called, market_ids, bet_log,
          attempted, markets, scanned, recent_open_markets, now>>

(***************************************************************************)
(* Configuration of each script.                                           *)
(***************************************************************************)
DefaultArgs == [kelly_fraction |-> Rat(1, 4), min_confidence |-> "Medium",
                dry_run |-> FALSE, resolution_months_limit |-> 1]

\* the command lines tried for the script that reads them: the defaults with
\* one option changed
GeminiArgs ==
    {[DefaultArgs EXCEPT !.kelly_fraction = k] : k \in KellyFractions}
    \cup {[DefaultArgs EXCEPT !.min_confidence = c] : c \in Labels}
    \cup {[DefaultArgs EXCEPT !.dry_run = b] : b \in BOOLEAN}

\* the command lines tried for the filter: --resolution-months-limit
FilterArgs ==
    {[DefaultArgs EXCEPT !.resolution_months_limit = k] : k \in MonthsLimits}

RESOLUTION_MONTHS_LIMIT(v, a) ==
    IF v = "gemini" THEN a.resolution_months_limit ELSE 1

KELLY_FRACTION(v, a) == IF v = "gemini" THEN a.kelly_fraction ELSE Rat(1, 4)

MINIMUM_CONFIDENCE_TO_BET(v, a) ==
    IF v = "gemini" THEN {a.min_confidence, "High"} ELSE {"Medium", "High"}

MIN_EDGE == Rat(1, 100)
EPS == Rat(1, 1000000000)

\* the name exit_flag as the main loop and the analysis function read it
LoopFlag == IF variant = "gemini" THEN imported_flag ELSE exit_flag

(***************************************************************************)
(* The decision step: from the estimate, the market probability and the    *)
(* balance to one of                                                       *)
(*   "sleep"     no bet, the iteration runs on to time.sleep(1)            *)
(*   "continue"  no bet, `continue` starts the next iteration at once      *)
(*   "raise"     ZeroDivisionError leaves the loop                         *)
(*   "call"      place_bet is called with outcome and bet_amount           *)
(***************************************************************************)
NoDecision ==
    [act |-> "none", outcome |-> "None", p_win |-> None, odds |-> None,
     kelly_percentage |-> None, bet_amount |-> None, divided |-> FALSE]

Hold(act, div) == [NoDecision EXCEPT !.act = act, !.divided = div]

\* kelly_percentage = (p_win * odds - 1) / (odds - 1), for odds # 1
KellyPercentage_OverOdds(p_win, odds) ==
    RDiv(RSub(RMul(p_win, odds), One), odds)
KellyPercentage(p_win, odds) ==
    RDiv(RSub(RMul(p_win, odds), One), RSub(odds, One))

\* bet_amount = balance * kelly_percentage * KELLY_FRACTION
BetAmount_OverFraction(bal, kp, kf) == RDiv(RMul(bal, kp), kf)
BetAmount(bal, kp, kf) == RMul(RMul(bal, kp), kf)

\* if bet_amount > balance: bet_amount = balance
Clamp_Missing(bet_amount, bal) == bet_amount
Clamp(bet_amount, bal) == IF RLt(bal, bet_amount) THEN bal ELSE bet_amount

\* if bet_amount >= 1: clamp and call place_bet; else report and fall through
StakeStep_NoMinimum(outcome, p_win, odds, kp, bal, kf) ==
    LET bet_amount == BetAmount(bal, kp, kf)
    IN  IF RLt(Zero, bet_amount)
        THEN [act |-> "call", outcome |-> outcome, p_win |-> p_win,
              odds |-> odds, kelly_percentage |-> kp,
              bet_amount |-> Clamp(bet_amount, bal), divided |-> TRUE]
        ELSE Hold("sleep", TRUE)
StakeStep(outcome, p_win, odds, kp, bal, kf) ==
    LET bet_amount == BetAmount(bal, kp, kf)
    IN  IF RLe(One, bet_amount)
        THEN [act |-> "call", outcome |-> outcome, p_win |-> p_win,
              odds |-> odds, kelly_percentage |-> kp,
              bet_amount |-> Clamp(bet_amount, bal), divided |-> TRUE]
        ELSE Hold("sleep", TRUE)

\* the confidence gate: model_prob is not None and the label is in the list
Gate_ProbOnly(v, a, mp, mc) == mp # None
Gate(v, a, mp, mc) == mp # None /\ mc \in MINIMUM_CONFIDENCE_TO_BET(v, a)

\* odds of the chosen side: 1 / market_prob on YES, 1 / (1 - market_prob) on NO
Odds_Net(outcome, pm) ==
    RSub(IF outcome = "YES" THEN RDiv(One, pm) ELSE RDiv(One, RSub(One, pm)),
         One)
Odds(outcome, pm) ==
    IF outcome = "YES" THEN RDiv(One, pm) ELSE RDiv(One, RSub(One, pm))

\* p_win of the chosen side
PWin_Same(outcome, mp) == mp
PWin(outcome, mp) == IF outcome = "YES" THEN mp ELSE RSub(One, mp)

\* if abs(edge) > 0.01 (modular: MIN_EDGE)
EdgePasses_Inclusive(edge, min_edge) == RLe(min_edge, RAbs(edge))
EdgePasses(edge, min_edge) == RLt(min_edge, RAbs(edge))

\* the side the edge selects
Side(edge) == IF RLt(Zero, edge) THEN "YES" ELSE "NO"

\* unified_manifold_api.py: no guard before the division, none on Kelly <= 0
Decide_unified(a, mp, mc, pm, bal) ==
    IF ~Gate("unified", a, mp, mc) THEN Hold("sleep", FALSE)
    ELSE LET edge == RSub(mp, pm)
             outcome == Side(edge)
         IN  IF ~EdgePasses(edge, Rat(1, 100)) THEN Hold("sleep", FALSE)
             ELSE IF (IF outcome = "YES" THEN pm ELSE RSub(One, pm)) = Zero
                  THEN Hold("raise", TRUE)
             ELSE LET odds == Odds(outcome, pm)
                      p_win == PWin(outcome, mp)
                  IN  IF RLe(odds, One) THEN Hold("continue", TRUE)
                      ELSE StakeStep(outcome, p_win, odds,
                                     KellyPercentage(p_win, odds), bal,
                                     KELLY_FRACTION("unified", a))

\* manifold_gemini_autobet.py: EPS guards before the division, Kelly <= 0 guard
Decide_gemini(a, mp, mc, pm, bal) ==
    IF ~Gate("gemini", a, mp, mc) THEN Hold("sleep", FALSE)
    ELSE LET edge == RSub(mp, pm)
             outcome == Side(edge)
         IN  IF ~EdgePasses(edge, Rat(1, 100)) THEN Hold("sleep", FALSE)
             ELSE IF RLe(IF outcome = "YES" THEN pm ELSE RSub(One, pm), EPS)
                  THEN Hold("continue", FALSE)
             ELSE LET odds == Odds(outcome, pm)
                      p_win == PWin(outcome, mp)
                      kp == KellyPercentage(p_win, odds)
                  IN  IF RLe(odds, One) THEN Hold("continue", TRUE)
                      ELSE IF RLe(kp, Zero) THEN Hold("continue", TRUE)
                      ELSE StakeStep(outcome, p_win, odds, kp, bal,
                                     KELLY_FRACTION("gemini", a))

\* modular_manifold_bettor.py: market_prob <= 0 and >= 1 guards, MIN_EDGE
Decide_modular(a, mp, mc, pm, bal) ==
    IF ~Gate("modular", a, mp, mc) THEN Hold("sleep", FALSE)
    ELSE LET edge == RSub(mp, pm)
             outcome == Side(edge)
         IN  IF ~EdgePasses(edge, MIN_EDGE) THEN Hold("sleep", FALSE)
             ELSE IF (IF outcome = "YES" THEN RLe(pm, Zero) ELSE RLe(One, pm))
                  THEN Hold("continue", FALSE)
             ELSE LET odds == Odds(outcome, pm)
                      p_win == PWin(outcome, mp)
                  IN  IF RLe(odds, One) THEN Hold("continue", TRUE)
                      ELSE StakeStep(outcome, p_win, odds,
                                     KellyPercentage(p_win, odds), bal,
                                     KELLY_FRACTION("modular", a))

Decide(v, a, mp, mc, pm, bal) ==
    CASE v = "unified" -> Decide_unified(a, mp, mc, pm, bal)
      [] v = "gemini"  -> Decide_gemini(a, mp, mc, pm, bal)
      [] v = "modular" -> Decide_modular(a, mp, mc, pm, bal)

\* modular place_bet: bet_amount_int = max(1, int(round(amount)))
BetAmountInt(amount) == LET r == round(amount) IN IF r < 1 THEN 1 ELSE r

\* payload["amount"] as place_bet of each script builds it
PayloadAmount(v, amount) ==
    IF v = "modular" THEN RInt(BetAmountInt(amount)) ELSE amount

(***************************************************************************)
(* The market filter.                                                      *)
(***************************************************************************)
\* m.get('closeTime') as a condition
Truthy(c) == c.kind \in {"text", "huge"} \/ (c.kind = "number" /\ c.ms # 0)

\* m['closeTime'] / 1000 and datetime.fromtimestamp raise for a string and for
\* a timestamp out of range
Malformed(c) == c.kind \in {"text", "huge"}

\* datetime.fromtimestamp(m['closeTime'] / 1000)
fromtimestamp(c) == RDiv(RInt(c.ms), RInt(1000))

\* cutoff_date = now + timedelta(days=RESOLUTION_MONTHS_LIMIT * 30)
cutoff_date(v, a, t) == RAdd(t, RInt(RESOLUTION_MONTHS_LIMIT(v, a) * 30))

\* now < close_time < cutoff_date
InWindow_Inclusive(t, close_time, cutoff) ==
    RLe(t, close_time) /\ RLe(close_time, cutoff)
InWindow(t, close_time, cutoff) ==
    RLt(t, close_time) /\ RLt(close_time, cutoff)

\* recent_open_markets.append(m)
Keep_Converted(out, m) ==
    Append(out, [m EXCEPT !.closeTime.ms = m.closeTime.ms \div 1000])
Keep(out, m) == Append(out, m)

\* the body of the filter loop for one summary: the list afterwards, and
\* whether an exception left the loop (modular catches it and goes on)
FilterEntry(v, a, out, m, t) ==
    IF ~m.isResolved /\ Truthy(m.closeTime)
    THEN IF Malformed(m.closeTime)
         THEN [out |-> out, raised |-> v # "modular"]
         ELSE IF InWindow(t, fromtimestamp(m.closeTime), cutoff_date(v, a, t))
              THEN [out |-> Keep(out, m), raised |-> FALSE]
              ELSE [out |-> out, raised |-> FALSE]
    ELSE [out |-> out, raised |-> FALSE]

\* the whole filter loop over a list no entry of which raises
RECURSIVE FilterFrom(_, _, _, _, _)
FilterFrom(v, a, out, ms, t) ==
    IF ms = <<>> THEN out
    ELSE FilterFrom(v, a, FilterEntry(v, a, out, Head(ms), t).out, Tail(ms), t)

(***************************************************************************)
(* The session: the state after user details, search and filter.           *)
(***************************************************************************)
InitSession ==
    /\ variant \in Variants
    /\ args \in IF variant = "gemini" THEN GeminiArgs ELSE {DefaultArgs}
    /\ exit_flag = FALSE
    /\ imported_flag = FALSE
    /\ pc = "top"
    /\ num_markets \in 0..MaxMarkets
    /\ idx = 0
    /\ initial_balance \in InitialBalances
    /\ balance = initial_balance
    /\ market_prob = None
    /\ chunks = 0
    /\ model_prob = None
    /\ model_confidence = "None"
    /\ decision = NoDecision
    /\ payload_amount = None
    /\ bet_placed = FALSE
    /\ amount_bet = Zero
    /\ flag_at_top = FALSE
    /\ cancel_mid = FALSE
    /\ divided = FALSE
    /\ called = FALSE
    /\ bet_log = <<>>
    /\ attempted = <<>>

\* the filter has run over a search result all of whose summaries it kept
Filtered ==
    /\ now = RInt(100)
    /\ markets = [i \in 1..num_markets |->
                     [id |-> market_ids[i], isResolved |-> FALSE,
                      closeTime |-> [kind |-> "number", ms |-> 115000]]]
    /\ scanned = num_markets
    /\ recent_open_markets = markets

\* the markets a search returns are distinct: ids named in order of appearance
Init ==
    /\ InitSession
    /\ market_ids = [i \in 1..num_markets |-> i]
    /\ Filtered

\* any list of summaries, one that names a market more than once included
InitIds ==
    /\ InitSession
    /\ market_ids \in [1..num_markets -> MarketIds]
    /\ Filtered

Config == <<variant, args, num_markets, initial_balance, imported_flag,
            market_ids, markets, scanned, recent_open_markets, now>>
History == <<bet_log, attempted>>

\* the names of one iteration, as a new iteration finds them
FreshIteration ==
    /\ market_prob' = None
    /\ chunks' = 0
    /\ model_prob' = None
    /\ model_confidence' = "None"
    /\ decision' = NoDecision
    /\ payload_amount' = None
    /\ bet_placed' = FALSE
    /\ amount_bet' = Zero
    /\ cancel_mid' = FALSE
    /\ divided' = FALSE
    /\ called' = FALSE

Iteration == <<market_prob, chunks, model_prob, model_confidence, decision,
               payload_amount, bet_placed, amount_bet, cancel_mid, divided,
               called>>

\* graceful_exit_listener: keyboard.wait('q') returns, the flag is set
Listener_Toggle ==
    /\ exit_flag' = ~exit_flag
    /\ cancel_mid' = (cancel_mid \/ pc \in {"analysis", "analysis_check", "parse"})
    /\ UNCHANGED <<Config, History, pc, idx, balance, market_prob, chunks, model_prob,
                   model_confidence, decision, payload_amount, bet_placed,
                   amount_bet, flag_at_top, divided, called>>
Listener ==
    /\ ~exit_flag
    /\ exit_flag' = TRUE
    /\ cancel_mid' = (cancel_mid \/ pc \in {"analysis", "analysis_check", "parse"})
    /\ UNCHANGED <<Config, History, pc, idx, balance, market_prob, chunks, model_prob,
                   model_confidence, decision, payload_amount, bet_placed,
                   amount_bet, flag_at_top, divided, called>>

\* the for loop finds the list exhausted
LoopExhausted ==
    /\ pc = "top" /\ idx = num_markets
    /\ pc' = "done"
    /\ UNCHANGED <<Config, History, exit_flag, idx, balance, Iteration, flag_at_top>>

\* if exit_flag: break
LoopBreak ==
    /\ pc = "top" /\ idx < num_markets /\ LoopFlag
    /\ pc' = "done"
    /\ flag_at_top' = exit_flag
    /\ UNCHANGED <<Config, History, exit_flag, idx, balance, Iteration>>

\* the summary has a slug: get_market_by_slug(slug) is called
LoopNext ==
    /\ pc = "top" /\ idx < num_markets /\ ~LoopFlag
    /\ pc' = "fetch"
    /\ flag_at_top' = exit_flag
    /\ FreshIteration
    /\ UNCHANGED <<Config, History, exit_flag, idx, balance>>

\* if not slug: continue
LoopNoSlug ==
    /\ pc = "top" /\ idx < num_markets /\ ~LoopFlag
    /\ pc' = "top"
    /\ idx' = idx + 1
    /\ flag_at_top' = exit_flag
    /\ FreshIteration
    /\ UNCHANGED <<Config, History, exit_flag, balance>>

\* get_market_by_slug returned None, or the market is not BINARY: continue
FetchSkip_Analyses ==
    /\ pc = "fetch"
    /\ pc' = "analysis"
    /\ UNCHANGED <<Config, History, exit_flag, idx, balance, Iteration,
                   flag_at_top>>
FetchSkip ==
    /\ pc = "fetch"
    /\ pc' = "top"
    /\ idx' = idx + 1
    /\ UNCHANGED <<Config, History, exit_flag, balance, Iteration, flag_at_top>>

\* a BINARY market came back: the analysis function is entered
FetchBinary ==
    /\ pc = "fetch"
    /\ \E pm \in MarketProbs : market_prob' = pm
    /\ pc' = "analysis"
    /\ UNCHANGED <<Config, History, exit_flag, idx, balance, chunks, model_prob,
                   model_confidence, decision, payload_amount, bet_placed,
                   amount_bet, flag_at_top, cancel_mid, divided, called>>

\* a chunk of the stream arrives: if exit_flag: break, else append its text
StreamChunk ==
    /\ pc = "analysis" /\ variant # "modular"
    /\ IF LoopFlag
       THEN pc' = "analysis_check" /\ chunks' = chunks
       ELSE chunks < MaxChunks /\ chunks' = chunks + 1 /\ pc' = pc
    /\ UNCHANGED <<Config, History, exit_flag, idx, balance, market_prob, model_prob,
                   model_confidence, decision, payload_amount, bet_placed,
                   amount_bet, flag_at_top, cancel_mid, divided, called>>

\* the stream ends, or the OpenRouter response body is read
AnalysisDone ==
    /\ pc = "analysis"
    /\ pc' = "analysis_check"
    /\ UNCHANGED <<Config, History, exit_flag, idx, balance, Iteration, flag_at_top>>

\* the call fails with an exception the function catches: return None, None
AnalysisError ==
    /\ pc = "analysis"
    /\ pc' = "decide"
    /\ chunks' = 0
    /\ UNCHANGED <<Config, History, exit_flag, idx, balance, market_prob,
                   model_prob, model_confidence, decision, payload_amount, bet_placed,
                   amount_bet, cancel_mid, divided, called, flag_at_top>>

\* modular: data["choices"][0]["message"]["content"] raises KeyError,
\* IndexError or TypeError, which `except RequestException` does not catch
AnalysisRaise ==
    /\ pc = "analysis" /\ variant = "modular"
    /\ pc' = "crashed"
    /\ UNCHANGED <<Config, History, exit_flag, idx, balance, Iteration, flag_at_top>>

\* if exit_flag: return None, None
AnalysisExitCheck ==
    /\ pc = "analysis_check"
    /\ pc' = IF LoopFlag THEN "decide" ELSE "parse"
    /\ chunks' = IF LoopFlag THEN 0 ELSE chunks
    /\ UNCHANGED <<Config, History, exit_flag, idx, balance, market_prob,
                   model_prob, model_confidence, decision, payload_amount, bet_placed,
                   amount_bet, cancel_mid, divided, called, flag_at_top>>

\* the trailing JSON parses: the function returns probability and confidence
ParseOK ==
    /\ pc = "parse"
    /\ \E pe \in EstimateProbs, c \in Labels :
          model_prob' = pe /\ model_confidence' = c
    /\ pc' = "decide"
    /\ chunks' = 0
    /\ UNCHANGED <<Config, History, exit_flag, idx, balance, market_prob,
                   decision, payload_amount, bet_placed, amount_bet,
                   flag_at_top, cancel_mid, divided, called>>

\* the parse fails with a caught exception: the function returns None, None
ParseFail ==
    /\ pc = "parse"
    /\ pc' = "decide"
    /\ chunks' = 0
    /\ UNCHANGED <<Config, History, exit_flag, idx, balance, market_prob,
                   model_prob, model_confidence, decision, payload_amount, bet_placed,
                   amount_bet, cancel_mid, divided, called, flag_at_top>>

\* unified, gemini: gemini_data["confidence"] raises KeyError after
\* gemini_prob was assigned: the function returns the probability and None
ParsePartial ==
    /\ pc = "parse" /\ variant # "modular"
    /\ \E pe \in EstimateProbs : model_prob' = pe
    /\ pc' = "decide"
    /\ chunks' = 0
    /\ UNCHANGED <<Config, History, exit_flag, idx, balance, market_prob,
                   model_confidence, decision, payload_amount, bet_placed,
                   amount_bet, flag_at_top, cancel_mid, divided, called>>

\* unified, gemini: the trailing JSON is not an object, or its probability is
\* null: TypeError, which the except clause of the parse does not name
ParseRaise ==
    /\ pc = "parse" /\ variant # "modular"
    /\ pc' = "crashed"
    /\ chunks' = 0
    /\ UNCHANGED <<Config, History, exit_flag, idx, balance, market_prob,
                   model_prob, model_confidence, decision, payload_amount, bet_placed,
                   amount_bet, cancel_mid, divided, called, flag_at_top>>

\* the decision step of the loop body
DecideStep ==
    /\ pc = "decide"
    /\ LET d == Decide(variant, args, model_prob, model_confidence,
                       market_prob, balance)
       IN  /\ decision' = d
           /\ divided' = d.divided
           /\ called' = (d.act = "call")
           /\ pc' = CASE d.act = "sleep" -> "sleep"
                      [] d.act = "continue" -> "top"
                      [] d.act = "raise" -> "crashed"
                      [] d.act = "call" -> "place_bet"
           /\ idx' = IF d.act = "continue" THEN idx + 1 ELSE idx
           /\ attempted' = IF d.act = "call"
                            THEN Append(attempted, market_ids[idx + 1])
                            ELSE attempted
    /\ UNCHANGED <<Config, bet_log, exit_flag, balance, market_prob, chunks,
                   model_prob, model_confidence, payload_amount, bet_placed,
                   amount_bet, flag_at_top, cancel_mid>>

\* place_bet: if exit_flag: return False, 0
PlaceBetGuard_Skipped == FALSE
PlaceBetGuard_Imported == LoopFlag
PlaceBetGuard == exit_flag

\* the row log_bet writes for the current market: of its columns, the
\* market id, the amount and the dry-run flag
LogRow(amount, dry_run) ==
    [market_id |-> market_ids[idx + 1], amount |-> amount, dry_run |-> dry_run]

\* log_bet appends one row to bet_log.csv; only common.place_bet calls it
log_bet(v, log, row) == IF v = "gemini" THEN Append(log, row) ELSE log

\* place_bet: if dry_run: log the bet and return True, amount
DryRun_Ignored == FALSE
DryRun == variant = "gemini" /\ args.dry_run

\* place_bet up to the request: the exit check, the dry run, the payload
PlaceBetEntry ==
    /\ pc = "place_bet"
    /\ IF PlaceBetGuard
       THEN /\ bet_placed' = FALSE /\ amount_bet' = Zero
            /\ payload_amount' = payload_amount
            /\ bet_log' = bet_log
            /\ pc' = "settle"
       ELSE IF DryRun
       THEN /\ bet_placed' = TRUE /\ amount_bet' = decision.bet_amount
            /\ payload_amount' = payload_amount
            /\ bet_log' = log_bet(variant, bet_log,
                                  LogRow(decision.bet_amount, TRUE))
            /\ pc' = "settle"
       ELSE /\ payload_amount' = PayloadAmount(variant, decision.bet_amount)
            /\ pc' = "post"
            /\ UNCHANGED <<bet_placed, amount_bet, bet_log>>
    /\ UNCHANGED <<Config, attempted, exit_flag, idx, balance, market_prob, chunks,
                   model_prob, model_confidence, decision, flag_at_top,
                   cancel_mid, divided, called>>

\* the betting sink accepts: return True and the amount of the payload
PostOK ==
    /\ pc = "post"
    /\ bet_placed' = TRUE
    /\ amount_bet' = payload_amount
    /\ bet_log' = log_bet(variant, bet_log, LogRow(payload_amount, FALSE))
    /\ pc' = "settle"
    /\ UNCHANGED <<Config, attempted, exit_flag, idx, balance, market_prob, chunks,
                   model_prob, model_confidence, decision, payload_amount,
                   flag_at_top, cancel_mid, divided, called>>

\* the request fails (RequestException): return False, 0
PostFail ==
    /\ pc = "post"
    /\ bet_placed' = FALSE
    /\ amount_bet' = Zero
    /\ pc' = "settle"
    /\ UNCHANGED <<Config, History, exit_flag, idx, balance, market_prob, chunks,
                   model_prob, model_confidence, decision, payload_amount,
                   flag_at_top, cancel_mid, divided, called>>

\* balance -= amount_bet
Debit_Added(bal, amount) == RAdd(bal, amount)
Debit(bal, amount) == RSub(bal, amount)

\* if bet_placed: balance -= amount_bet
Settle_StopOnFailure ==
    /\ pc = "settle"
    /\ balance' = IF bet_placed THEN Debit(balance, amount_bet) ELSE balance
    /\ pc' = IF bet_placed THEN "sleep" ELSE "done"
    /\ UNCHANGED <<Config, History, exit_flag, idx, Iteration, flag_at_top>>
Settle_DryRunFree ==
    /\ pc = "settle"
    /\ balance' = IF bet_placed /\ ~DryRun THEN Debit(balance, amount_bet)
                  ELSE balance
    /\ pc' = "sleep"
    /\ UNCHANGED <<Config, History, exit_flag, idx, Iteration, flag_at_top>>
Settle ==
    /\ pc = "settle"
    /\ balance' = IF bet_placed THEN Debit(balance, amount_bet) ELSE balance
    /\ pc' = "sleep"
    /\ UNCHANGED <<Config, History, exit_flag, idx, Iteration, flag_at_top>>

\* time.sleep(1), then the next iteration
Sleep ==
    /\ pc = "sleep"
    /\ pc' = "top"
    /\ idx' = idx + 1
    /\ UNCHANGED <<Config, History, exit_flag, balance, Iteration, flag_at_top>>

Next ==
    \/ Listener
    \/ LoopExhausted
    \/ LoopBreak
    \/ LoopNext
    \/ LoopNoSlug
    \/ FetchSkip
    \/ FetchBinary
    \/ StreamChunk
    \/ AnalysisDone
    \/ AnalysisError
    \/ AnalysisRaise
    \/ AnalysisExitCheck
    \/ ParseOK
    \/ ParseFail
    \/ ParsePartial
    \/ ParseRaise
    \/ DecideStep
    \/ PlaceBetEntry
    \/ PostOK
    \/ PostFail
    \/ Settle
    \/ Sleep

Spec == Init /\ [][Next]_vars

\* the same session over any search result
SpecIds == InitIds /\ [][Next]_vars

\* the state when the filter loop starts: the search has returned
InitFilter ==
    /\ variant \in Variants
    /\ args \in IF variant = "gemini" THEN FilterArgs ELSE {DefaultArgs}
    /\ exit_flag = FALSE
    /\ imported_flag = FALSE
    /\ pc = "filter"
    /\ now \in Nows
    /\ \E n \in 0..MaxMarkets :
          markets \in {ms \in [1..n -> UNION {Summaries(i) : i \in 1..n}] :
                          \A i \in 1..n : ms[i].id = i}
    /\ scanned = 0
    /\ recent_open_markets = <<>>
    /\ num_markets = 0
    /\ market_ids = <<>>
    /\ idx = 0
    /\ initial_balance = RInt(1000)
    /\ balance = initial_balance
    /\ market_prob = None
    /\ chunks = 0
    /\ model_prob = None
    /\ model_confidence = "None"
    /\ decision = NoDecision
    /\ payload_amount = None
    /\ bet_placed = FALSE
    /\ amount_bet = Zero
    /\ flag_at_top = FALSE
    /\ cancel_mid = FALSE
    /\ divided = FALSE
    /\ called = FALSE
    /\ bet_log = <<>>
    /\ attempted = <<>>

Session == <<exit_flag, imported_flag, num_markets, market_ids, idx,
             initial_balance, balance, Iteration, flag_at_top, History>>

\* for m in markets: one summary is tested, and appended if it passes
FilterStep ==
    /\ pc = "filter" /\ scanned < Len(markets)
    /\ LET r == FilterEntry(variant, args, recent_open_markets,
                            markets[scanned + 1], now)
       IN  /\ recent_open_markets' = r.out
           /\ pc' = IF r.raised THEN "crashed" ELSE "filter"
           /\ scanned' = IF r.raised THEN scanned ELSE scanned + 1
    /\ UNCHANGED <<variant, args, markets, now, Session>>

\* the for loop finds markets exhausted
FilterDone ==
    /\ pc = "filter" /\ scanned = Len(markets)
    /\ pc' = "filtered"
    /\ UNCHANGED <<variant, args, markets, scanned, recent_open_markets, now,
                   Session>>

NextFilter ==
    \/ FilterStep
    \/ FilterDone

SpecFilter == InitFilter /\ [][NextFilter]_vars

\* the balances the decision step is tried with
DecideBalances ==
    {Zero, Rat(18, 25), Rat(3, 2), RInt(6), RInt(1000)}

\* the decision step alone: the loop is about to decide on its one market,
\* with an estimate, a market probability and a balance of the given sets
DecideInputs(pes, pms, bals) ==
    /\ variant \in Variants
    /\ args \in IF variant = "gemini" THEN GeminiArgs ELSE {DefaultArgs}
    /\ exit_flag = FALSE
    /\ imported_flag = FALSE
    /\ pc = "decide"
    /\ num_markets = 1
    /\ market_ids = <<1>>
    /\ Filtered
    /\ idx = 0
    /\ balance \in bals
    /\ initial_balance = balance
    /\ market_prob \in pms
    /\ chunks = 0
    /\ \/ model_prob = None /\ model_confidence = "None"
       \/ model_prob \in pes /\ model_confidence \in Labels \cup {"None"}
    /\ decision = NoDecision
    /\ payload_amount = None
    /\ bet_placed = FALSE
    /\ amount_bet = Zero
    /\ flag_at_top = FALSE
    /\ cancel_mid = FALSE
    /\ divided = FALSE
    /\ called = FALSE
    /\ bet_log = <<>>
    /\ attempted = <<>>

\* estimates and market probabilities around the minimum edge, added to those
\* of the session
DecideEstimateProbs ==
    EstimateProbs \cup {MIN_EDGE, Rat(13, 25)}
DecideMarketProbs == MarketProbs \cup {MIN_EDGE}

InitDecide ==
    DecideInputs(DecideEstimateProbs, DecideMarketProbs, DecideBalances)

SpecDecide == InitDecide /\ [][DecideStep]_vars

\* market probabilities within EPS of 0 and of 1, and the ends themselves
NearMarketProbs ==
    {Zero, EPS, RSub(One, EPS), One}
\* estimates and balances whose stake over odds of 1 / EPS stays within the
\* integers of the model checker
NearEstimateProbs == {Zero, Rat(3, 10), One}
NearBalances == {Zero, RInt(6)}

\* the decision step on a market whose probability is within EPS of an end
InitNear == DecideInputs(NearEstimateProbs, NearMarketProbs, NearBalances)

SpecNear == InitNear /\ [][DecideStep]_vars

\* timeout=HTTP_TIMEOUT of the requests calls: only modular passes one
HasTimeout(v) == v = "modular"

\* a request is sent and no response ever arrives
Stall ==
    /\ pc \in {"fetch", "analysis", "post"}
    /\ pc' = CASE pc = "fetch" -> "fetch_stalled"
               [] pc = "analysis" -> "analysis_stalled"
               [] pc = "post" -> "post_stalled"
    /\ UNCHANGED <<Config, History, exit_flag, idx, balance, Iteration,
                   flag_at_top>>

\* the timeout of a stalled request expires: requests raises Timeout, a
\* RequestException, which each caller handles as a failed call
Timeout ==
    /\ HasTimeout(variant)
    /\ pc \in {"fetch_stalled", "analysis_stalled", "post_stalled"}
    /\ pc' = CASE pc = "fetch_stalled" -> "top"
               [] pc = "analysis_stalled" -> "decide"
               [] pc = "post_stalled" -> "settle"
    /\ idx' = IF pc = "fetch_stalled" THEN idx + 1 ELSE idx
    /\ bet_placed' = IF pc = "post_stalled" THEN FALSE ELSE bet_placed
    /\ amount_bet' = IF pc = "post_stalled" THEN Zero ELSE amount_bet
    /\ UNCHANGED <<Config, History, exit_flag, balance, market_prob, chunks,
                   model_prob, model_confidence, decision, payload_amount,
                   flag_at_top, cancel_mid, divided, called>>

NextStall ==
    \/ Next
    \/ Stall
    \/ Timeout

\* the session with stalled calls; every thread that can run does run
SpecStall == Init /\ [][NextStall]_vars /\ WF_vars(NextStall)

TypeOK ==
    /\ pc \in {"top", "fetch", "analysis", "analysis_check", "parse", "decide",
               "place_bet", "post", "settle", "sleep", "done", "crashed",
               "fetch_stalled", "analysis_stalled", "post_stalled",
               "filter", "filtered"}
    /\ idx \in 0..num_markets
    /\ balance[2] > 0

(***************************************************************************)
(* Properties.                                                             *)
(***************************************************************************)
RMin(x, y) == IF RLt(y, x) THEN y ELSE x
Interior(p) == p # None /\ RLt(Zero, p) /\ RLt(p, One)
Rank(c) == CASE c = "Low" -> 1 [] c = "Medium" -> 2 [] c = "High" -> 3
\* the configured minimum confidence: --min-confidence, or the lowest label of
\* the fixed list
MinConfidence == IF variant = "gemini" THEN args.min_confidence ELSE "Medium"
\* the main thread is past the decision step of the current iteration
Decided == decision.act # "none"
\* place_bet was called and the loop has not yet settled its result
InPlaceBet == pc \in {"place_bet", "post", "settle"}

\* C1: with kelly_fraction in (0, 1], the running balance stays between 0
\* and the initial balance, whatever the placements did.
C1_BalanceInvariant ==
    (RLt(Zero, KELLY_FRACTION(variant, args))
        /\ RLe(KELLY_FRACTION(variant, args), One))
    => (RLe(Zero, balance) /\ RLe(balance, initial_balance))

C1_Witness ==
    /\ pc = "sleep" /\ idx = 1 /\ bet_placed
    /\ RLe(KELLY_FRACTION(variant, args), One)
    /\ RLt(Zero, balance) /\ RLt(balance, RSub(initial_balance, amount_bet))

\* C2: the amount requested from place_bet is at most the balance held at the
\* call, and so is the amount of the payload sent to the betting sink.
C2_StakeWithinBalance ==
    /\ InPlaceBet => RLe(decision.bet_amount, balance)
    /\ (InPlaceBet /\ payload_amount # None) => RLe(payload_amount, balance)

C2_Witness ==
    /\ pc = "post" /\ variant = "modular"
    /\ RLt(decision.bet_amount, payload_amount)
    /\ RLe(payload_amount, balance)

\* C3: the balance changes only in the step after place_bet returned success;
\* after a reported failure that step leaves the balance alone and goes on to
\* the sleep, from which the loop takes the next market of the list.
C3_DebitOnlyOnSuccess ==
    [][/\ (balance' # balance) => (pc = "settle" /\ bet_placed)
       /\ (pc = "settle" /\ ~bet_placed /\ pc' # pc)
            => (balance' = balance /\ pc' = "sleep")
       /\ (pc = "sleep" /\ pc' # pc) => (pc' = "top" /\ idx' = idx + 1)]_vars

C3_Witness ==
    /\ pc = "sleep" /\ called /\ ~bet_placed /\ payload_amount # None
    /\ balance = initial_balance /\ idx + 1 < num_markets /\ ~exit_flag

\* C4: the amount place_bet reports as filled is never more than the stake
\* the loop requested.
C4_FilledAtMostRequested ==
    (pc = "settle" /\ bet_placed) => RLe(amount_bet, decision.bet_amount)

\* C5: once the listener has set the flag, no iteration that begins afterwards
\* fetches market details or starts an analysis.
C5_NoWorkAfterCancel ==
    pc \in {"fetch", "analysis", "analysis_check", "parse"} => ~flag_at_top

\* C6: a market during whose analysis the flag was set causes no debit.
C6_CancelledAnalysisNoDebit ==
    [][cancel_mid => balance' = balance]_vars

C6_Witness ==
    /\ cancel_mid /\ called /\ pc = "settle" /\ ~bet_placed

\* C7: an estimate whose label ranks below the configured minimum is held:
\* no odds division is evaluated, place_bet is not called, nothing is raised.
BelowMinimum ==
    /\ model_confidence \in Labels
    /\ Rank(model_confidence) < Rank(MinConfidence)

C7_LowConfidenceHolds ==
    BelowMinimum => (~divided /\ ~called /\ pc # "crashed"
                     /\ (Decided => decision.act = "sleep"))

C7_Witness ==
    /\ BelowMinimum /\ Decided /\ pc = "sleep"
    /\ market_prob = Zero /\ model_prob = One

\* C8: with market probability 0 and positive edge, or 1 and negative edge,
\* the decision step raises nothing: the market is held and the loop goes on.
DegenerateInput ==
    /\ model_prob # None /\ market_prob # None
    /\ \/ market_prob = Zero /\ RLt(Zero, RSub(model_prob, market_prob))
       \/ market_prob = One /\ RLt(RSub(model_prob, market_prob), Zero)

C8_DegenerateNeverRaises ==
    (DegenerateInput /\ Decided)
    => (decision.act \in {"sleep", "continue"} /\ pc # "crashed")

\* C9: for p_e and p_m strictly between 0 and 1, place_bet is only called
\* with odds b = 1/p_m on YES, b = 1/(1 - p_m) on NO, and b > 1.
C9_OddsAboveOne ==
    (called /\ Interior(model_prob) /\ Interior(market_prob))
    => /\ decision.odds =
            (IF decision.outcome = "YES"
             THEN RDiv(One, market_prob)
             ELSE RDiv(One, RSub(One, market_prob)))
       /\ RLt(One, decision.odds)

C9_Witness ==
    /\ called /\ decision.outcome = "NO"
    /\ Interior(model_prob) /\ market_prob = Rat(3, 4)

\* C10: a bet requests min(balance, balance * f * kelly_fraction) with
\* f = (p_win * b - 1) / (b - 1); p_e = 0.72, p_m = 0.50, High against a
\* minimum of Medium, quarter Kelly and balance 1000 give YES for 110.
ClaimedStake ==
    LET yes == decision.outcome = "YES"
        p_win == IF yes THEN model_prob ELSE RSub(One, model_prob)
        b == IF yes THEN RDiv(One, market_prob)
             ELSE RDiv(One, RSub(One, market_prob))
        f == RDiv(RSub(RMul(p_win, b), One), RSub(b, One))
    IN  RMin(balance, RMul(RMul(balance, f), KELLY_FRACTION(variant, args)))

ScenarioA ==
    /\ model_prob = Rat(18, 25) /\ market_prob = Rat(1, 2)
    /\ model_confidence = "High" /\ MinConfidence = "Medium"
    /\ KELLY_FRACTION(variant, args) = Rat(1, 4)
    /\ balance = RInt(1000)

C10_StakeFormula ==
    /\ (called /\ InPlaceBet) => decision.bet_amount = ClaimedStake
    /\ (ScenarioA /\ Decided /\ pc # "sleep" /\ pc # "top" /\ pc # "done")
        => /\ called /\ decision.outcome = "YES"
           /\ decision.bet_amount = RInt(110)

C10_Witness ==
    /\ ScenarioA /\ pc = "place_bet" /\ decision.bet_amount = RInt(110)

\* the stake balance * f * kelly_fraction of the claims, before any clamp,
\* for an estimate and a market probability that differ and are not both at
\* the same end of [0, 1]
SizingDefined ==
    /\ model_prob # None /\ market_prob # None
    /\ model_prob # market_prob
    /\ Interior(market_prob)

UnclampedStake ==
    LET yes == RLt(market_prob, model_prob)
        p_win == IF yes THEN model_prob ELSE RSub(One, model_prob)
        b == IF yes THEN RDiv(One, market_prob)
             ELSE RDiv(One, RSub(One, market_prob))
        f == RDiv(RSub(RMul(p_win, b), One), RSub(b, One))
    IN  RMul(RMul(balance, f), KELLY_FRACTION(variant, args))

\* C11 as stated: a computed stake below 1 is held without a call to
\* place_bet, and every requested stake is at least 1.
C11_Original ==
    /\ (Decided /\ ~bet_placed /\ SizingDefined /\ RLt(UnclampedStake, One))
        => ~called
    /\ InPlaceBet => RLe(One, decision.bet_amount)

\* C11 as amended: a computed stake below 1 is held without a call to
\* place_bet; with kelly_fraction in (0, 1] every requested stake is at
\* least 1.
C11_MinimumStake ==
    /\ (Decided /\ ~bet_placed /\ SizingDefined /\ RLt(UnclampedStake, One))
        => (~called /\ decision.act \in {"sleep", "continue"})
    /\ (InPlaceBet /\ RLt(Zero, KELLY_FRACTION(variant, args))
                   /\ RLe(KELLY_FRACTION(variant, args), One))
        => RLe(One, decision.bet_amount)

C11_Witness ==
    /\ Decided /\ divided /\ decision.act = "sleep" /\ pc = "sleep"
    /\ SizingDefined /\ RLt(Zero, UnclampedStake) /\ RLt(UnclampedStake, One)

\* C14: with dry-run set, the main thread never reaches the request to the
\* betting sink and no payload is ever built for it.
C14_DryRunSendsNothing ==
    args.dry_run => (pc # "post" /\ payload_amount = None)

C14_Witness ==
    /\ args.dry_run /\ pc = "settle" /\ called /\ bet_placed
    /\ amount_bet = decision.bet_amount

\* C17: the cancellation flag starts false, only ever goes from false to
\* true, and the step that sets it is the listener's: the main thread's
\* position and data are untouched by it, and no step of the main loop or of
\* place_bet writes the flag.
C17_FlagOneWay ==
    /\ ~exit_flag
    /\ [][/\ exit_flag => exit_flag'
          /\ exit_flag' # exit_flag =>
                UNCHANGED <<pc, idx, balance, decision, payload_amount,
                            bet_placed, amount_bet, imported_flag>>]_vars

C17_Witness ==
    /\ exit_flag /\ variant = "unified"
    /\ pc = "settle" /\ called /\ ~bet_placed /\ payload_amount = None

\* the amount the decision step and place_bet would send for the inputs of
\* the current market had the session been started with --kelly-fraction k;
\* a decision that does not call place_bet counts as 0
StakeAt(k) ==
    LET d == Decide(variant, [args EXCEPT !.kelly_fraction = k], model_prob,
                    model_confidence, market_prob, balance)
    IN  IF d.act = "call" THEN PayloadAmount(variant, d.bet_amount) ELSE Zero

\* C18: for the estimate, confidence, market probability and balance of a
\* decision step, a larger kelly_fraction never gives a smaller amount sent
\* (a hold counted as 0).
C18_MonotoneInKellyFraction ==
    \A k1 \in KellyFractions, k2 \in KellyFractions :
        RLe(k1, k2) => RLe(StakeAt(k1), StakeAt(k2))

C18_Witness ==
    /\ pc = "place_bet" /\ called
    /\ variant = "gemini" /\ args.kelly_fraction = One /\ balance = RInt(6)
    /\ decision.bet_amount = StakeAt(One)
    /\ StakeAt(Rat(1, 4)) = Zero
    /\ RLt(StakeAt(One), StakeAt(RInt(2)))

\* C13: a failed or malformed answer of the probability source gives no
\* estimate: the loop is never ended by an exception raised before the
\* decision step, and a market without an estimate is never bet on.
C13_AnalysisFailureSkips ==
    /\ pc = "crashed" => Decided
    /\ (Decided /\ model_prob = None) => (~called /\ pc # "crashed")

\* place_bet has returned from a dry run or from a request to the sink
AttemptMade == pc = "settle" /\ (payload_amount # None \/ bet_placed)

\* C15: every attempted bet, a dry run or a rejected request included, leaves
\* one row in the audit log: when place_bet returns from an attempt the last
\* row is that attempt's, and the log never has more rows than attempts.
C15_EveryAttemptLogged ==
    /\ Len(bet_log) <= Len(attempted)
    /\ AttemptMade =>
          /\ Len(bet_log) > 0
          /\ bet_log[Len(bet_log)].market_id = market_ids[idx + 1]
          /\ bet_log[Len(bet_log)].dry_run = args.dry_run

\* C16: whatever list the search returned, place_bet is called at most once
\* with any market id.
C16_OneAttemptPerMarket ==
    \A i \in 1..Len(attempted), j \in 1..Len(attempted) :
        attempted[i] = attempted[j] => i = j

\* the main thread waits for the response of a request
Stalled == pc \in {"fetch_stalled", "analysis_stalled", "post_stalled"}

\* C20: every external call is bounded by a timeout: once the flag is set
\* while a call waits for a response that never comes, the call returns and
\* the session loop ends.
C20_StalledCallReturns ==
    (Stalled /\ exit_flag) ~> (pc \in {"done", "crashed"})

\* the inclusion rule of the claims, on the integers of the summary: not
\* resolved, a numeric close time, strictly inside the window
Months == RESOLUTION_MONTHS_LIMIT(variant, args)
RuleKeeps(m) ==
    /\ ~m.isResolved
    /\ m.closeTime.kind = "number"
    /\ now[1] * 1000 < m.closeTime.ms
    /\ m.closeTime.ms < (now[1] + Months * 30) * 1000

\* C12: the list the filter has built is the summaries read so far that are
\* not resolved and whose close time is present and strictly between now and
\* now + months * 30 days, in the order of the search result.
C12_FilterRule ==
    recent_open_markets = SelectSeq(SubSeq(markets, 1, scanned), RuleKeeps)

C12_Witness ==
    /\ pc = "filtered" /\ Len(markets) = 2 /\ Months = 1 /\ now = RInt(100)
    /\ ~markets[1].isResolved
    /\ markets[1].closeTime = [kind |-> "number", ms |-> 130000]
    /\ recent_open_markets = <<markets[2]>>

\* C19: filtering the list the filter produced, with the same now and the
\* same horizon, gives that list again.
C19_FilterIdempotent ==
    pc = "filtered" =>
        FilterFrom(variant, args, <<>>, recent_open_markets, now)
            = recent_open_markets

C19_Witness ==
    /\ pc = "filtered" /\ Len(markets) = 2 /\ Len(recent_open_markets) = 1
    /\ recent_open_markets[1] = markets[2]
    /\ markets[1].isResolved

\* the label is one of the order and ranks at or above the configured minimum
AtOrAboveMinimum ==
    /\ model_confidence \in Labels
    /\ Rank(model_confidence) >= Rank(MinConfidence)

\* the edge passes the minimum-edge test of the claims
EdgeAboveMinimum ==
    /\ model_prob # None /\ market_prob # None
    /\ RLt(MIN_EDGE, RAbs(RSub(model_prob, market_prob)))

\* C21: the confidence gate rejects an estimate exactly when its label ranks
\* below the configured minimum: a label at or above it passes, so that an
\* estimate with a sufficient edge and a stake of at least 1 is bet on.
C21_GateIffBelowMinimum ==
    (Decided /\ model_prob # None /\ model_confidence \in Labels)
    => /\ Gate(variant, args, model_prob, model_confidence) = AtOrAboveMinimum
       /\ ~AtOrAboveMinimum => ~called
       /\ (AtOrAboveMinimum /\ EdgeAboveMinimum /\ SizingDefined
             /\ ~bet_placed /\ RLe(One, UnclampedStake)) => called

\* C23: an estimate within min_edge of the market probability is held, with
\* no odds division and no call; place_bet is called on YES only for an edge
\* above min_edge and on NO only for an edge below -min_edge.
C23_MinimumEdge ==
    (Decided /\ model_prob # None /\ market_prob # None)
    => LET edge == RSub(model_prob, market_prob)
       IN  /\ RLe(RAbs(edge), MIN_EDGE)
                => (decision.act = "sleep" /\ ~divided /\ ~called)
           /\ (called /\ decision.outcome = "YES") => RLt(MIN_EDGE, edge)
           /\ (called /\ decision.outcome = "NO") => RLt(MIN_EDGE, RNeg(edge))

C23_Witness ==
    /\ pc = "sleep" /\ decision.act = "sleep" /\ ~divided
    /\ model_confidence = "High" /\ balance = RInt(1000)
    /\ model_prob = Zero /\ market_prob = MIN_EDGE

\* the edge selects a side whose market probability (YES: market_prob, NO:
\* 1 - market_prob) is at most EPS
NearDegenerate ==
    /\ model_prob # None /\ market_prob # None
    /\ LET edge == RSub(model_prob, market_prob)
       IN  \/ RLt(Zero, edge) /\ RLe(market_prob, EPS)
           \/ RLt(edge, Zero) /\ RLe(RSub(One, market_prob), EPS)

\* C22: in every variant, a decision on an estimate whose edge is positive
\* with market_prob <= 1e-9, or negative with 1 - market_prob <= 1e-9, is a
\* hold: the odds division is not performed and place_bet is not called.
C22_NearDegenerateHolds ==
    (Decided /\ NearDegenerate)
    => /\ decision.act \in {"sleep", "continue"}
       /\ ~divided
       /\ ~called

\* C25: in every variant the market filter has no error case: it raises
\* nothing, and an entry whose close time is missing, not a number or out of
\* range is left out of the filtered list.
C25_FilterNoErrorCase ==
    /\ pc # "crashed"
    /\ \A i \in 1..Len(recent_open_markets) :
           recent_open_markets[i].closeTime.kind = "number"

\* the estimate and the market probability pass the edge test, and the
\* denominator of the odds of the side the edge selects is not zero
PassesEdgeAndDenominator ==
    /\ EdgeAboveMinimum
    /\ RLe(Zero, model_prob) /\ RLe(model_prob, One)
    /\ RLe(Zero, market_prob) /\ RLe(market_prob, One)
    /\ IF RLt(market_prob, model_prob) THEN RLt(Zero, market_prob)
       ELSE RLt(market_prob, One)

\* (p_e - p_m) / (1 - p_m) on YES, (p_m - p_e) / p_m on NO
ReducedKelly ==
    IF RLt(market_prob, model_prob)
    THEN RDiv(RSub(model_prob, market_prob), RSub(One, market_prob))
    ELSE RDiv(RSub(market_prob, model_prob), market_prob)

\* C28: for an estimate and a market probability in [0,1] that pass the edge
\* test and the zero-denominator test, the Kelly percentage the code computes
\* equals (p_e - p_m)/(1 - p_m) on YES and (p_m - p_e)/p_m on NO and lies in
\* (0, 1]; the stake before the clamp is at most the balance when
\* kelly_fraction <= 1; and no decision ends in the hold of the Kelly <= 0
\* (or odds <= 1) test.
C28_KellyReduces ==
    /\ PassesEdgeAndDenominator
         => LET outcome == Side(RSub(model_prob, market_prob))
                kp == KellyPercentage(PWin(outcome, model_prob),
                                      Odds(outcome, market_prob))
                kf == KELLY_FRACTION(variant, args)
            IN  /\ kp = ReducedKelly
                /\ RLt(Zero, kp) /\ RLe(kp, One)
                /\ RLe(kf, One) => RLe(BetAmount(balance, kp, kf), balance)
                /\ called => decision.kelly_percentage = ReducedKelly
    /\ Decided => ~(decision.act = "continue" /\ decision.divided)

C28_Witness ==
    /\ called /\ decision.outcome = "NO"
    /\ variant = "gemini" /\ args.kelly_fraction = One
    /\ model_prob = Zero /\ market_prob = Rat(1, 2)
    /\ decision.kelly_percentage = One
    /\ decision.bet_amount = balance /\ balance = RInt(1000)

\* C24: when the placement call has returned, the loop reads the cancellation
\* flag again before it debits the balance: with the flag set, the step that
\* follows the return of place_bet leaves the balance as it is.
C24_RecheckBeforeDebit ==
    [][(pc = "settle" /\ exit_flag) => balance' = balance]_vars

\* no BINARY detail has been fetched for the market of the current iteration
NoBinaryDetail == market_prob = None

\* C26: a market whose detail fetch fails or whose outcome type is not BINARY
\* is skipped: without a BINARY detail the loop is never in the analysis, the
\* decision or place_bet, and the step that ends such a fetch goes to the next
\* market of the list with the balance and the record of attempts unchanged.
C26_FetchFailureSkips ==
    /\ [](NoBinaryDetail
            => /\ pc \in {"top", "fetch", "done"}
               /\ model_prob = None /\ chunks = 0
               /\ ~Decided /\ ~called)
    /\ [][(pc = "fetch" /\ pc' # "fetch" /\ NoBinaryDetail')
            => /\ pc' = "top" /\ idx' = idx + 1
               /\ balance' = balance
               /\ attempted' = attempted /\ bet_log' = bet_log]_vars

\* the second market of the list is about to be handled after a skip of the
\* first, with nothing analysed, attempted or debited
C26_Witness ==
    /\ pc = "top" /\ idx = 1 /\ num_markets = 2 /\ ~exit_flag
    /\ NoBinaryDetail /\ ~flag_at_top
    /\ balance = initial_balance /\ balance = RInt(1000)
    /\ attempted = <<>> /\ bet_log = <<>>

\* C27: the delay step separates consecutive markets on every path: when an
\* iteration that made an external call (it is past the top of the loop) hands
\* over to a next market of the list, the step that does so is time.sleep(1).
C27_DelayOnEveryPath ==
    [][(idx' = idx + 1 /\ idx' < num_markets /\ pc # "top")
         => pc = "sleep"]_vars

\* the session runs the script that reads --dry-run, with the option given
DryRunMode == variant = "gemini" /\ args.dry_run

\* C29 as stated: in dry-run mode place_bet reports success with the
\* requested amount for every Bet decision.
C29_Original ==
    [][(DryRunMode /\ pc = "place_bet" /\ pc' # pc)
         => (bet_placed' /\ amount_bet' = decision.bet_amount)]_vars

\* C29: in dry-run mode a place_bet call entered with the cancellation flag
\* unset sends nothing and reports success with the requested amount, the
\* loop then debits the balance by that full stake, and the stake of a later
\* market is sized from the balance so reduced.
C29_DryRunDebits ==
    /\ [](DryRunMode
            => /\ pc # "post" /\ payload_amount = None
               /\ (pc = "settle" /\ bet_placed)
                     => amount_bet = decision.bet_amount
               /\ pc = "place_bet" => decision.bet_amount = ClaimedStake)
    /\ [][(DryRunMode /\ pc = "place_bet" /\ ~exit_flag /\ pc' # pc)
            => /\ pc' = "settle" /\ bet_placed'
               /\ amount_bet' = decision.bet_amount]_vars
    /\ [][(DryRunMode /\ pc = "settle" /\ bet_placed /\ pc' # pc)
            => balance' = RSub(balance, decision.bet_amount)]_vars

\* the second market of a dry-run session after a dry-run bet on the first:
\* its stake is about to be "placed", sized from the reduced balance
C29_Witness ==
    /\ DryRunMode /\ pc = "place_bet" /\ idx = 1 /\ ~exit_flag
    /\ initial_balance = RInt(1000) /\ RLt(balance, initial_balance)
    /\ Len(bet_log) = 1 /\ bet_log[1].dry_run
    /\ balance = RSub(initial_balance, bet_log[1].amount)
    /\ decision.bet_amount = ClaimedStake

\* C30: in every variant, a place_bet entered with the cancellation flag set
\* sends no request, writes no audit record and returns (False, 0), and the
\* loop then leaves the balance unchanged.
C30_CancelledPlaceBet ==
    /\ [][(pc = "place_bet" /\ exit_flag /\ pc' # pc)
            => /\ pc' = "settle"
               /\ ~bet_placed' /\ amount_bet' = Zero
               /\ payload_amount' = None
               /\ bet_log' = bet_log]_vars
    /\ [][(pc = "settle" /\ ~bet_placed /\ pc' # pc)
            => balance' = balance]_vars

\* the script that imports the flag has called place_bet for real after the
\* flag was set: nothing was sent, logged or debited
C30_Witness ==
    /\ variant = "gemini" /\ ~args.dry_run /\ exit_flag /\ ~imported_flag
    /\ pc = "sleep" /\ called /\ flag_at_top
    /\ payload_amount = None /\ ~bet_placed /\ amount_bet = Zero
    /\ balance = initial_balance /\ bet_log = <<>>

====
